---------------------------- MODULE Spec2Model ----------------------------
(***************************************************************************)
(* Model of src/main.py: the property-document retrieval pipeline          *)
(* fetch_docs_as_zip and its helpers.                                      *)
(*                                                                         *)
(* Every await on the page is a step whose outcome the portal decides:     *)
(* it returns, or it raises (a Playwright timeout or error).  The model    *)
(* draws each outcome with \E.  Values are abstracted as follows:          *)
(*   - an Optional[str] / Optional[bytes] is None, Empty ("" or b"") or a  *)
(*     non-empty value;                                                    *)
(*   - a URL or href is a sequence of tokens, so that startswith, the      *)
(*     origin regex and string concatenation are computed, not assumed;    *)
(*   - a table row's text is a sequence of word tokens.                    *)
(***************************************************************************)
EXTENDS Integers, Sequences, FiniteSets, TLC

(***************************************************************************)
(* Bounds of the model.                                                    *)
(***************************************************************************)
\* Longest tax-bill table (number of <tr> rows) the resolver is run on.
MaxRows == 3

\* Request slots.  Each request runs fetch_docs_as_zip on its own session.
Req == {1, 2}

(***************************************************************************)
(* Values.                                                                 *)
(***************************************************************************)
None == "None"
Empty == ""
Url == "url"
Bytes == "bytes"

\* Python truthiness of an Optional[str] / Optional[bytes] / dict value.
Truthy(x) == x \notin {None, Empty}

DocNames == {"deed.pdf", "property_record_card.pdf", "tax_bill.pdf"}

\* files: Dict[str, bytes]; a name maps to None when it is not a key.
EmptyFiles == [d \in DocNames |-> None]
Keys(f) == {d \in DocNames : f[d] # None}

\* PropertyLinks(address=address)
NewLinks ==
    [pin |-> None, prc_url |-> None, tax_bills_url |-> None,
     deed_url |-> None, deed_book_page |-> None]

\* The browser session of one request.
NoSession == [playwright |-> "none", browser |-> "none", context |-> "none"]
OpenSession == [playwright |-> "running", browser |-> "open", context |-> "open"]

VARIABLES
    pc,          \* control position of each request
    session,     \* playwright driver / browser / context of each request
    links,       \* PropertyLinks of each request
    files,       \* the bundle (files dict) of each request
    deed_bytes,  \* local deed_bytes of fetch_docs_as_zip
    dl_result,   \* history: what _download_via_browser_download returned
    print_result,\* history: outcome of each _print_page_to_pdf call, by document
    ops,         \* history: the page operations performed, in order
    raised,      \* history: the required stages in which an operation raised
    failedAt,    \* history: the stage whose exception left fetch_docs_as_zip
    outcome,     \* result of fetch_docs_as_zip: "zip", "404", "error" or "none"
    packaged,    \* history: the bundle handed to the ZIP step, or "none"
    rows,        \* the <tr> rows of the tax-bills page
    n,           \* n = await rows.count()
    i,           \* loop index of the row scan
    best_year,
    best_href,
    page_url,    \* page.url while resolving the tax bill
    bill_url,    \* value returned by _try_get_latest_tax_bill_url
    form_address,\* history: the address field as posted to /download
    address      \* local `address` of download, passed to fetch_docs_as_zip

pipeVars == <<pc, session, links, files, deed_bytes, dl_result, print_result,
              ops, raised, failedAt, outcome, packaged>>
taxVars == <<rows, n, i, best_year, best_href, page_url, bill_url>>
reqVars == <<form_address, address>>
vars == <<pipeVars, taxVars, reqVars>>

Set(f, r, x) == [f EXCEPT ![r] = x]
Log(r, op) == ops' = [ops EXCEPT ![r] = Append(@, op)]


(***************************************************************************)
(* Session: async_playwright() context manager, browser, context.          *)
(***************************************************************************)
\* Leaving `async with async_playwright() as p` without its exit running
\* (what a bare `p = await async_playwright().start()` would do).
PlaywrightExit_Leak(s) == s

\* __aexit__ of `async with async_playwright()`: the driver is stopped, and a
\* browser and context still open go down with it.
PlaywrightExit(s) ==
    [playwright |-> "stopped",
     browser |-> IF s.browser = "open" THEN "closed" ELSE s.browser,
     context |-> IF s.context = "open" THEN "closed" ELSE s.context]

\* await context.close(); await browser.close()
CloseSession(s) == [s EXCEPT !.context = "closed", !.browser = "closed"]

(***************************************************************************)
(* Control flow of an awaited page operation.                              *)
(***************************************************************************)
\* Stages of fetch_docs_as_zip that sit outside any try/except.
RequiredStages == {"goto_portal", "wait_ready", "search", "open_result", "extract"}

\* Result opening wrapped in a try/except that swallows its failure.
Propagates_OpenSwallowed(stage, ok) == ~ok /\ stage # "open_result"

\* An exception raised inside `stage` leaves fetch_docs_as_zip: no handler
\* encloses the required stages.
Propagates(stage, ok) == ~ok

\* The exception unwinds through `async with`; fetch_docs_as_zip raises.
Raise(r, stage) ==
    /\ pc' = Set(pc, r, "done")
    /\ outcome' = Set(outcome, r, "error")
    /\ failedAt' = Set(failedAt, r, stage)
    /\ session' = Set(session, r, PlaywrightExit(session[r]))

Goto(r, next) ==
    /\ pc' = Set(pc, r, next)
    /\ UNCHANGED <<outcome, failedAt, session>>

\* A required stage: it returns and the next statement runs, or it raises.
Required(r, stage, ok, next) ==
    /\ raised' = Set(raised, r, IF ok THEN raised[r] ELSE raised[r] \cup {stage})
    /\ IF Propagates(stage, ok) THEN Raise(r, stage) ELSE Goto(r, next)

(***************************************************************************)
(* The /download endpoint.                                                 *)
(***************************************************************************)
\* Values of the posted address field, one character per element.
FormAddresses ==
    { <<>>,
      <<" ", " ", " ", " ", " ", " ">>,
      <<"1", "2", " ", "M">>,
      <<" ", "1", "2", " ", "M", " ">>,
      <<" ", "1", "2", " ", "M", "l", " ">>,
      <<"1", "3", "3", " ", "M", "a", "n", "o", "r">> }

RECURSIVE LStrip(_)
LStrip(a) == IF a # <<>> /\ Head(a) = " " THEN LStrip(Tail(a)) ELSE a

RECURSIVE RStrip(_)
RStrip(a) ==
    IF a # <<>> /\ a[Len(a)] = " " THEN RStrip(SubSeq(a, 1, Len(a) - 1)) ELSE a

\* address.strip()
Strip(a) == RStrip(LStrip(a))

\* The floor written `len(address) < 4`.
TooShort_Four(a) == Len(a) < 4

\* if len(address) < 5:
TooShort(a) == Len(a) < 5

\* download: strip the field, reject a short address with HTTP 400, else
\* call fetch_docs_as_zip(address).
Download(r) ==
    /\ pc[r] = "idle"
    /\ \E a \in FormAddresses :
          /\ form_address' = Set(form_address, r, a)
          /\ address' = Set(address, r, Strip(a))
          /\ IF TooShort(Strip(a))
             THEN /\ pc' = Set(pc, r, "rejected")
                  /\ outcome' = Set(outcome, r, "400")
             ELSE /\ pc' = Set(pc, r, "fetch_docs")
                  /\ UNCHANGED outcome
    /\ UNCHANGED <<session, links, files, deed_bytes, dl_result, print_result,
                   ops, raised, failedAt, packaged, taxVars>>

(***************************************************************************)
(* fetch_docs_as_zip, stage 1: open the portal and search.                 *)
(***************************************************************************)
\* async_playwright(), chromium.launch, new_context, new_page,
\* set_default_timeout.
FetchStart(r) ==
    /\ pc[r] = "fetch_docs"
    /\ pc' = Set(pc, r, "goto_portal")
    /\ session' = Set(session, r, OpenSession)
    /\ UNCHANGED <<links, files, deed_bytes, dl_result, print_result, ops,
                   raised, failedAt, outcome, packaged, taxVars, reqVars>>

\* await page.goto(IREDell_MAPGEO_URL, wait_until="domcontentloaded")
GotoPortal(r) ==
    /\ pc[r] = "goto_portal"
    /\ Log(r, "goto_portal")
    /\ \E ok \in BOOLEAN : Required(r, "goto_portal", ok, "wait_ready")
    /\ UNCHANGED <<links, files, deed_bytes, dl_result, print_result, packaged,
                   taxVars, reqVars>>

\* _wait_for_mapgeo_ready: wait_for_load_state, then wait_for_selector on the
\* quick-search input (DEFAULT_TIMEOUT_MS).
WaitForMapgeoReady(r) ==
    /\ pc[r] = "wait_ready"
    /\ Log(r, "wait_ready")
    /\ \E ok \in BOOLEAN : Required(r, "wait_ready", ok, "search")
    /\ UNCHANGED <<links, files, deed_bytes, dl_result, print_result, packaged,
                   taxVars, reqVars>>

\* _search_address_on_mapgeo: wait visible, click, fill, type, press Enter,
\* settle delay; any of them may raise.
SearchAddressOnMapgeo(r) ==
    /\ pc[r] = "search"
    /\ Log(r, "search")
    /\ \E ok \in BOOLEAN : Required(r, "search", ok, "open_auto")
    /\ UNCHANGED <<links, files, deed_bytes, dl_result, print_result, packaged,
                   taxVars, reqVars>>

(***************************************************************************)
(* _open_first_result_details.                                             *)
(***************************************************************************)
\* try: wait_for_selector("text=PIN", 6 s); return / except: pass
OpenCheckAuto(r) ==
    /\ pc[r] = "open_auto"
    /\ \E visible \in BOOLEAN :
          /\ ops' = Set(ops, r,
                 ops[r] \o (IF visible THEN <<"open_result", "marker_visible">>
                            ELSE <<"open_result">>))
          /\ pc' = Set(pc, r, IF visible THEN "extract" ELSE "open_link")
    /\ UNCHANGED <<session, links, files, deed_bytes, dl_result, print_result,
                   raised, failedAt, outcome, packaged, taxVars, reqVars>>

\* A click that is taken for the opened result without the final wait.
AfterClick_NoWait == "extract"

\* After either click the function goes on to the final wait for the marker.
AfterClick == "open_wait"

\* A container click that follows the link attempt whatever its result.
LinkFallback_Always(o) == TRUE

\* The except branch runs when the wait for the link or its click raised.
LinkFallback(o) == o # "clicked"

\* try: address_link.wait_for(visible); address_link.click() / except: fallback
OpenClickLink(r) ==
    /\ pc[r] = "open_link"
    /\ \E o \in {"clicked", "wait_raises", "click_raises"} :
          /\ ops' = Set(ops, r,
                 ops[r] \o (IF o = "clicked" THEN <<"try_link", "click_link">>
                            ELSE <<"try_link">>))
          /\ pc' = Set(pc, r, IF LinkFallback(o) THEN "open_row" ELSE AfterClick)
    /\ UNCHANGED <<session, links, files, deed_bytes, dl_result, print_result,
                   raised, failedAt, outcome, packaged, taxVars, reqVars>>

\* except branch: row.wait_for(visible); row.click(); a failure here is not
\* caught.
OpenClickRow(r) ==
    /\ pc[r] = "open_row"
    /\ \E o \in {"clicked", "wait_raises", "click_raises"} :
          /\ ops' = Set(ops, r,
                 ops[r] \o (IF o = "clicked" THEN <<"try_row", "click_row">>
                            ELSE <<"try_row">>))
          /\ Required(r, "open_result", o = "clicked", AfterClick)
    /\ UNCHANGED <<links, files, deed_bytes, dl_result, print_result, packaged,
                   taxVars, reqVars>>

\* await page.wait_for_selector("text=PIN", timeout=DEFAULT_TIMEOUT_MS)
OpenWaitDetails(r) ==
    /\ pc[r] = "open_wait"
    /\ \E visible \in BOOLEAN :
          /\ IF visible THEN Log(r, "marker_visible") ELSE UNCHANGED ops
          /\ Required(r, "open_result", visible, "extract")
    /\ UNCHANGED <<links, files, deed_bytes, dl_result, print_result,
                   packaged, taxVars, reqVars>>


(***************************************************************************)
(* _extract_property_links_from_details.                                   *)
(***************************************************************************)
\* Visible text of <body>, as word tokens.  The details marker is visible, so
\* "PIN" is on the page; what follows the label varies.
BodyTexts ==
    { <<"Owner", "PIN", "4657.12", "Deed">>,
      <<"PIN", ":", "4657.12">>,
      <<"PIN", "Owner">> }

DigitTokens == {"4657.12"}

\* re.search(r"\bPIN\b\s*([\d\.]+)", body_text): the first "PIN" directly
\* followed by a digits-and-dots token; group(1), or None without a match.
PinMatch(txt) ==
    LET hits == {k \in 1..(Len(txt) - 1) :
                    txt[k] = "PIN" /\ txt[k + 1] \in DigitTokens}
    IN IF hits = {} THEN None
       ELSE txt[(CHOOSE k \in hits : \A j \in hits : k <= j) + 1]

\* Outcomes of loc.is_visible(timeout) and of loc.get_attribute("href").
VisibleOutcomes == {"raises", "false", "true"}
AttrOutcomes == {"raises", None, Empty, Url}
TextOutcomes == {"raises", "2972 / 328"}

\* href_for_link_text: the href when the anchor is visible, None when it is
\* not or when either call raises.
HrefForLinkText(vis, attr) ==
    IF vis = "true" /\ attr # "raises" THEN attr ELSE None

\* The deed block (try ... except: pass): deed_book_page is assigned before
\* the href is read, so a failing href read leaves the citation set.
DeedBookPage(vis, txt) ==
    IF vis = "true" /\ txt # "raises" THEN txt ELSE None

DeedUrl(vis, txt, attr) ==
    IF vis = "true" /\ txt # "raises" /\ attr # "raises" THEN attr ELSE None

\* What the details page answers to the calls of the extraction: the body
\* text, and for each anchor its visibility, href and (deed) inner text.
Answers(body, pv, pa, tv, ta, dv, dt, da) ==
    [body |-> body, pv |-> pv, pa |-> pa, tv |-> tv, ta |-> ta,
     dv |-> dv, dt |-> dt, da |-> da]

\* The extraction on a page that answers p.
\* body_text = await page.locator("body").inner_text() is outside any try.
ExtractFrom(r, p) ==
    /\ pc[r] = "extract"
    /\ Log(r, "extract")
    /\ Required(r, "extract", p.body # <<"raises">>, "deed")
    /\ links' = Set(links, r,
           IF p.body = <<"raises">> THEN links[r]
           ELSE [pin |-> PinMatch(p.body),
                 prc_url |-> HrefForLinkText(p.pv, p.pa),
                 tax_bills_url |-> HrefForLinkText(p.tv, p.ta),
                 deed_url |-> DeedUrl(p.dv, p.dt, p.da),
                 deed_book_page |-> DeedBookPage(p.dv, p.dt)])
    /\ UNCHANGED <<files, deed_bytes, dl_result, print_result, packaged, taxVars, reqVars>>

ExtractPropertyLinks(r) ==
    /\ pc[r] = "extract"
    /\ \E body \in BodyTexts \cup {<<"raises">>} :
       \E pv, tv, dv \in VisibleOutcomes :
       \E pa, ta, da \in AttrOutcomes :
       \E dt \in TextOutcomes :
          ExtractFrom(r, Answers(body, pv, pa, tv, ta, dv, dt, da))


(***************************************************************************)
(* Document acquisition: deed, property record card.                       *)
(***************************************************************************)
\* _print_page_to_pdf: goto(networkidle), settle delay, page.pdf(); it raises
\* or returns the PDF bytes.
PrintOutcomes == {"raises", Empty, Bytes}

\* The property-record-card print without its try/except.
Caught_PrcUncaught(stage) == stage # "prc_print"

\* Each acquisition call sits in a try/except that swallows every exception.
Caught(stage) == TRUE

\* A retry: a failed acquisition starts the acquisitions over.
Optional_Retry(r, stage, ok, next) ==
    IF ok THEN Goto(r, next) ELSE Goto(r, "deed")

\* An optional step: after a swallowed failure the next statement runs.
Optional(r, stage, ok, next) ==
    IF ~ok /\ ~Caught(stage) THEN Raise(r, stage) ELSE Goto(r, next)

\* files[name] = data on one dict that all calls share (a module-level
\* `files`).
Put_Shared(fs, r, name, b) == [q \in DOMAIN fs |-> [fs[q] EXCEPT ![name] = b]]

\* files = {name: data}: a new dict in place of the one being filled.
Put_Reset(fs, r, name, b) == [fs EXCEPT ![r] = [EmptyFiles EXCEPT ![name] = b]]

\* files[name] = data; `files` is a local of the call, one dict per request.
Put(fs, r, name, b) == [fs EXCEPT ![r] = [fs[r] EXCEPT ![name] = b]]

\* if links.deed_url: is false
DeedSkip(r) ==
    /\ pc[r] = "deed"
    /\ ~Truthy(links[r].deed_url)
    /\ pc' = Set(pc, r, "prc")
    /\ UNCHANGED <<session, links, files, deed_bytes, dl_result, print_result,
                   ops, raised, failedAt, outcome, packaged, taxVars, reqVars>>

\* _download_via_browser_download: expect_download(timeout=20 s) around
\* page.goto(url).  A raising goto or a wait that times out ends in
\* `except: return None`; otherwise a download has started.
DeedDownload(r) ==
    /\ pc[r] = "deed"
    /\ Truthy(links[r].deed_url)
    /\ Log(r, "deed_download")
    /\ \E o \in {"raises", "started"} :
          IF o = "started"
          THEN /\ pc' = Set(pc, r, "deed_path")
               /\ UNCHANGED <<deed_bytes, dl_result>>
          ELSE /\ pc' = Set(pc, r, "deed_after")
               /\ deed_bytes' = Set(deed_bytes, r, None)
               /\ dl_result' = Set(dl_result, r, None)
    /\ UNCHANGED <<session, links, files, print_result, raised, failedAt,
                   outcome, packaged, taxVars, reqVars>>

\* path = await download.path(); if path: return path.read_bytes();
\* a failed download raises (return None), a missing path returns None.
ReadDownload(o) == IF o = "raises" THEN None ELSE o

DeedPath(r) ==
    /\ pc[r] = "deed_path"
    /\ \E o \in {"raises", None, Empty, Bytes} :
          /\ deed_bytes' = Set(deed_bytes, r, ReadDownload(o))
          /\ dl_result' = Set(dl_result, r, ReadDownload(o))
    /\ pc' = Set(pc, r, "deed_after")
    /\ UNCHANGED <<session, links, files, print_result, ops, raised, failedAt,
                   outcome, packaged, taxVars, reqVars>>

\* download.path() takes no timeout: it waits until the download finishes.
\* A download the portal starts and never completes leaves the call, and the
\* request, waiting.
DeedPathStall(r) ==
    /\ pc[r] = "deed_path"
    /\ pc' = Set(pc, r, "deed_path_waiting")
    /\ UNCHANGED <<session, links, files, deed_bytes, dl_result, print_result,
                   ops, raised, failedAt, outcome, packaged, taxVars, reqVars>>

\* if deed_bytes is None:
NeedsPrint(b) == b = None

\* if deed_bytes: files["deed.pdf"] = deed_bytes
StoreDeed(f, b) == IF Truthy(b) THEN [f EXCEPT !["deed.pdf"] = b] ELSE f

\* try: deed_bytes = await _print_page_to_pdf(..., landscape=False)
\* except: deed_bytes = None
DeedPrint(r) ==
    /\ pc[r] = "deed_after"
    /\ NeedsPrint(deed_bytes[r])
    /\ Log(r, "deed_print")
    /\ \E o \in PrintOutcomes :
          /\ print_result' = Set(print_result, r,
                                 [print_result[r] EXCEPT !["deed.pdf"] = o])
          /\ deed_bytes' = Set(deed_bytes, r, IF o = "raises" THEN None ELSE o)
          /\ files' = Set(files, r, StoreDeed(files[r], deed_bytes'[r]))
    /\ pc' = Set(pc, r, "prc")
    /\ UNCHANGED <<session, links, dl_result, raised, failedAt, outcome,
                   packaged, taxVars, reqVars>>

\* The download returned something other than None: no print.
DeedKeep(r) ==
    /\ pc[r] = "deed_after"
    /\ ~NeedsPrint(deed_bytes[r])
    /\ files' = Set(files, r, StoreDeed(files[r], deed_bytes[r]))
    /\ pc' = Set(pc, r, "prc")
    /\ UNCHANGED <<session, links, deed_bytes, dl_result, print_result, ops,
                   raised, failedAt, outcome, packaged, taxVars, reqVars>>

\* if links.prc_url: is false
PrcSkip(r) ==
    /\ pc[r] = "prc"
    /\ ~Truthy(links[r].prc_url)
    /\ pc' = Set(pc, r, "tax")
    /\ UNCHANGED <<session, links, files, deed_bytes, dl_result, print_result,
                   ops, raised, failedAt, outcome, packaged, taxVars, reqVars>>

\* try: files["property_record_card.pdf"] = await _print_page_to_pdf(...)
\* except: pass
PrcPrint(r) ==
    /\ pc[r] = "prc"
    /\ Truthy(links[r].prc_url)
    /\ Log(r, "prc_print")
    /\ \E o \in PrintOutcomes :
          /\ print_result' = Set(print_result, r,
                 [print_result[r] EXCEPT !["property_record_card.pdf"] = o])
          /\ files' = IF o = "raises" THEN files
                       ELSE Put(files, r, "property_record_card.pdf", o)
          /\ Optional(r, "prc_print", o # "raises", "tax")
    /\ UNCHANGED <<links, deed_bytes, dl_result, raised, packaged, taxVars, reqVars>>


(***************************************************************************)
(* _try_get_latest_tax_bill_url.                                           *)
(***************************************************************************)
\* Visible text of a <tr>, as word tokens.
RowTexts ==
    { <<"Total", "due">>,
      <<"2021", "Paid">>,
      <<"Bill", "2022">>,
      <<"2023", "2021">> }

YearTokens == {"2021", "2022", "2023"}

\* int(m.group(1))
IntOf(tok) ==
    CASE tok = "2021" -> 2021
      [] tok = "2022" -> 2022
      [] tok = "2023" -> 2023

\* year_re.search(txt): is there a \b20\d{2}\b token
HasYear(txt) == \E k \in 1..Len(txt) : txt[k] \in YearTokens

\* search returns the leftmost match
FirstYear(txt) ==
    IntOf(txt[CHOOSE k \in 1..Len(txt) :
                 /\ txt[k] \in YearTokens
                 /\ \A j \in 1..(k - 1) : txt[j] \notin YearTokens])

\* The link of a row: none to follow, or an absolute, root-relative or
\* path-relative href on its first anchor.
LinkKinds == {"nolink", "abs", "root", "path"}

\* What r.locator("a").first.get_attribute("href") does on a row with no
\* link to follow: it raises (no anchor within the timeout), returns None
\* (no href attribute) or returns "".
MissingLink == {"raises", "none", "empty"}

\* A row whose inner_text() raises is not readable.
Row == [readable : {TRUE}, txt : RowTexts, link : LinkKinds]
         \cup {[readable |-> FALSE, txt |-> <<>>, link |-> "nolink"]}

\* The document the k-th row links to.
Doc == <<"bill1.pdf", "bill2.pdf", "bill3.pdf", "bill4.pdf", "bill5.pdf",
         "bill6.pdf">>

NoneHref == <<"None">>

\* try: href = await a.get_attribute("href") / except: href = None
RowHref(row, k, miss) ==
    CASE row.link = "nolink" /\ miss = "raises" -> NoneHref
      [] row.link = "nolink" /\ miss = "none" -> NoneHref
      [] row.link = "nolink" /\ miss = "empty" -> <<>>
      [] row.link = "abs" -> <<"http", "://", "bills.example", "/", Doc[k]>>
      [] row.link = "root" -> <<"/", Doc[k]>>
      [] row.link = "path" -> <<Doc[k]>>

\* if href: / if best_href:
HrefTruthy(h) == h # NoneHref /\ h # <<>>

\* The comparison written `year <= best_year`: an equal year is skipped too.
SkipRow_FirstWins(year, best) == year <= best

\* if year < best_year: continue
SkipRow(year, best) == year < best

\* One iteration of `for i in range(n)` on the k-th row: the new
\* (best_year, best_href).
ScanRow(by, bh, row, k, miss) ==
    IF ~row.readable THEN <<by, bh>>
    ELSE IF ~HasYear(row.txt) THEN <<by, bh>>
    ELSE IF SkipRow(FirstYear(row.txt), by) THEN <<by, bh>>
    ELSE IF HrefTruthy(RowHref(row, k, miss))
         THEN <<FirstYear(row.txt), RowHref(row, k, miss)>>
         ELSE <<by, bh>>

\* best_href.startswith(prefix), prefix one token
StartsWith(h, tok) == Len(h) > 0 /\ h[1] = tok

\* re.match(r"^(https?://[^/]+)", page.url)
HasOrigin(u) == Len(u) >= 3 /\ u[1] = "http" /\ u[2] = "://" /\ u[3] # "/"
Origin(u) == SubSeq(u, 1, 3)

\* Lines 201-210: the value returned.
ResolveBill(bh, page) ==
    IF HrefTruthy(bh) /\ StartsWith(bh, "http") THEN bh
    ELSE IF HrefTruthy(bh) /\ StartsWith(bh, "/") /\ HasOrigin(page)
         THEN Origin(page) \o bh
         ELSE page

\* page.url on the tax-bills site.
PageUrls ==
    { <<"http", "://", "portal.example", "/", "tax">>,
      <<"http", "://", "portal.example", "/", "tax", "/", "search">> }

\* Tables the portal serves to a request of the pipeline.
SamplePages ==
    { <<>>,
      <<[readable |-> TRUE, txt |-> <<"Total", "due">>, link |-> "nolink"]>>,
      <<[readable |-> TRUE, txt |-> <<"2023", "2021">>, link |-> "abs"]>>,
      <<[readable |-> TRUE, txt |-> <<"Bill", "2022">>, link |-> "root"],
        [readable |-> TRUE, txt |-> <<"2023", "2021">>, link |-> "nolink"]>>,
      <<[readable |-> FALSE, txt |-> <<>>, link |-> "nolink"],
        [readable |-> TRUE, txt |-> <<"2021", "Paid">>, link |-> "path"]>> }

\* if links.tax_bills_url: is false
TaxSkip(r) ==
    /\ pc[r] = "tax"
    /\ ~Truthy(links[r].tax_bills_url)
    /\ pc' = Set(pc, r, "teardown")
    /\ UNCHANGED <<session, links, files, deed_bytes, dl_result, print_result,
                   ops, raised, failedAt, outcome, packaged, taxVars, reqVars>>

\* page.goto(tax_bills_url); page.wait_for_load_state("networkidle").
\* A failure leaves the resolver and is swallowed by the caller's except.
TaxGoto(r) ==
    /\ pc[r] = "tax"
    /\ Truthy(links[r].tax_bills_url)
    /\ Log(r, "tax_resolve")
    /\ \E ok \in BOOLEAN :
          Optional(r, "tax_resolve", ok, IF ok THEN "tax_button1" ELSE "teardown")
    /\ UNCHANGED <<links, files, deed_bytes, dl_result, print_result, raised,
                   packaged, taxVars, reqVars>>

\* for btn_text in ["Search", "SEARCH"]: a visible button is clicked and the
\* loop breaks; an invisible one, or a raising call, moves to the next text.
TaxSearchButton(r, k) ==
    /\ pc[r] = (IF k = 1 THEN "tax_button1" ELSE "tax_button2")
    /\ \E o \in {"clicked", "not_visible", "raises"} :
          pc' = Set(pc, r, IF o = "clicked" \/ k = 2 THEN "tax_count"
                            ELSE "tax_button2")
    /\ UNCHANGED <<session, links, files, deed_bytes, dl_result, print_result,
                   ops, raised, failedAt, outcome, packaged, taxVars, reqVars>>

\* rows = page.locator("tr"); n = await rows.count(); best_year = -1;
\* best_href = None
TaxCount(r) ==
    /\ pc[r] = "tax_count"
    /\ \E table \in SamplePages :
          /\ rows' = Set(rows, r, table)
          /\ n' = Set(n, r, Len(table))
    /\ i' = Set(i, r, 0)
    /\ best_year' = Set(best_year, r, -1)
    /\ best_href' = Set(best_href, r, NoneHref)
    /\ pc' = Set(pc, r, "tax_scan")
    /\ UNCHANGED <<session, links, files, deed_bytes, dl_result, print_result,
                   ops, raised, failedAt, outcome, packaged, page_url, bill_url,
                   reqVars>>

\* Loop body for rows.nth(i).
TaxScanRow(r) ==
    /\ pc[r] = "tax_scan"
    /\ i[r] < n[r]
    /\ \E miss \in MissingLink :
          LET nb == ScanRow(best_year[r], best_href[r], rows[r][i[r] + 1],
                            i[r] + 1, miss)
          IN /\ best_year' = Set(best_year, r, nb[1])
             /\ best_href' = Set(best_href, r, nb[2])
    /\ i' = Set(i, r, i[r] + 1)
    /\ UNCHANGED <<pipeVars, rows, n, page_url, bill_url, reqVars>>

\* Loop exhausted: page.url is read and the return value computed.
TaxResolve(r) ==
    /\ pc[r] = "tax_scan"
    /\ i[r] >= n[r]
    /\ \E u \in PageUrls :
          /\ page_url' = Set(page_url, r, u)
          /\ bill_url' = Set(bill_url, r, ResolveBill(best_href[r], u))
    /\ pc' = Set(pc, r, "tax_print")
    /\ UNCHANGED <<session, links, files, deed_bytes, dl_result, print_result,
                   ops, raised, failedAt, outcome, packaged,
                   rows, n, i, best_year, best_href, reqVars>>

\* files["tax_bill.pdf"] = await _print_page_to_pdf(page, bill_url, False)
\* inside the same try/except: pass
TaxPrint(r) ==
    /\ pc[r] = "tax_print"
    /\ Log(r, "tax_print")
    /\ \E o \in PrintOutcomes :
          /\ print_result' = Set(print_result, r,
                                 [print_result[r] EXCEPT !["tax_bill.pdf"] = o])
          /\ files' = IF o = "raises" THEN files
                       ELSE Put(files, r, "tax_bill.pdf", o)
          /\ Optional(r, "tax_print", o # "raises", "teardown")
    /\ UNCHANGED <<links, deed_bytes, dl_result, raised, packaged, taxVars, reqVars>>


(***************************************************************************)
(* Teardown, the empty-bundle check and packaging.                         *)
(***************************************************************************)
\* await context.close(); await browser.close(); end of the `async with`.
Teardown(r) ==
    /\ pc[r] = "teardown"
    /\ Log(r, "close")
    /\ session' = Set(session, r, PlaywrightExit(CloseSession(session[r])))
    /\ pc' = Set(pc, r, "check")
    /\ UNCHANGED <<links, files, deed_bytes, dl_result, print_result, raised,
                   failedAt, outcome, packaged, taxVars, reqVars>>

\* The check written `if files is None:`, which an empty dict passes.
NotFiles_NeverEmpty(f) == FALSE

\* The check applied to the wrong size: a one-entry bundle is rejected too.
NotFiles_BelowTwo(f) == Cardinality(Keys(f)) < 2

\* if not files:
NotFiles(f) == Keys(f) = {}

\* raise HTTPException(status_code=404, ...)
RaiseNotFound(r) ==
    /\ pc[r] = "check"
    /\ NotFiles(files[r])
    /\ outcome' = Set(outcome, r, "404")
    /\ pc' = Set(pc, r, "done")
    /\ UNCHANGED <<session, links, files, deed_bytes, dl_result, print_result,
                   ops, raised, failedAt, packaged, taxVars, reqVars>>

\* zipfile.ZipFile(...): z.writestr(name, data) for each item; return bytes.
Package(r) ==
    /\ pc[r] = "check"
    /\ ~NotFiles(files[r])
    /\ Log(r, "package")
    /\ packaged' = Set(packaged, r, Keys(files[r]))
    /\ outcome' = Set(outcome, r, "zip")
    /\ pc' = Set(pc, r, "done")
    /\ UNCHANGED <<session, links, files, deed_bytes, dl_result, print_result,
                   raised, failedAt, taxVars, reqVars>>

(***************************************************************************)
(* Specifications.                                                         *)
(***************************************************************************)
NotAttempted == "not_attempted"
NotPackaged == {"not_packaged"}

\* Request 1 is about to be posted; slot 2 is not in use.
Init ==
    /\ pc = [r \in Req |-> IF r = 1 THEN "idle" ELSE "unused"]
    /\ session = [r \in Req |-> NoSession]
    /\ links = [r \in Req |-> NewLinks]
    /\ files = [r \in Req |-> EmptyFiles]
    /\ deed_bytes = [r \in Req |-> None]
    /\ dl_result = [r \in Req |-> NotAttempted]
    /\ print_result = [r \in Req |-> [d \in DocNames |-> NotAttempted]]
    /\ ops = [r \in Req |-> <<>>]
    /\ raised = [r \in Req |-> {}]
    /\ failedAt = [r \in Req |-> "none"]
    /\ outcome = [r \in Req |-> "none"]
    /\ packaged = [r \in Req |-> NotPackaged]
    /\ rows = [r \in Req |-> <<>>]
    /\ n = [r \in Req |-> 0]
    /\ i = [r \in Req |-> 0]
    /\ best_year = [r \in Req |-> -1]
    /\ best_href = [r \in Req |-> NoneHref]
    /\ page_url = [r \in Req |-> <<>>]
    /\ bill_url = [r \in Req |-> <<>>]
    /\ form_address = [r \in Req |-> <<>>]
    /\ address = [r \in Req |-> <<>>]

\* The steps of fetch_docs_as_zip.
\* The stages before the extraction, and those after it.
Locate(r) ==
    \/ FetchStart(r)
    \/ GotoPortal(r)
    \/ WaitForMapgeoReady(r)
    \/ SearchAddressOnMapgeo(r)
    \/ OpenCheckAuto(r)
    \/ OpenClickLink(r)
    \/ OpenClickRow(r)
    \/ OpenWaitDetails(r)

Acquire(r) ==
    \/ DeedSkip(r)
    \/ DeedDownload(r)
    \/ DeedPath(r)
    \/ DeedPathStall(r)
    \/ DeedPrint(r)
    \/ DeedKeep(r)
    \/ PrcSkip(r)
    \/ PrcPrint(r)
    \/ TaxSkip(r)
    \/ TaxGoto(r)
    \/ TaxSearchButton(r, 1)
    \/ TaxSearchButton(r, 2)
    \/ TaxCount(r)
    \/ TaxScanRow(r)
    \/ TaxResolve(r)
    \/ TaxPrint(r)
    \/ Teardown(r)
    \/ RaiseNotFound(r)
    \/ Package(r)

Pipeline(r) == Locate(r) \/ ExtractPropertyLinks(r) \/ Acquire(r)

Step(r) == Download(r) \/ Pipeline(r)

Next == \E r \in Req : Step(r)

Spec == Init /\ [][Next]_vars

\* Each request is one coroutine the event loop keeps running: a step that
\* can be taken is eventually taken.
FairSpec == Spec /\ \A r \in Req : WF_vars(Step(r))


(***************************************************************************)
(* The tax-bill resolver on its own: every table of at most MaxRows rows.  *)
(***************************************************************************)
Tables == UNION {[1..k -> Row] : k \in 0..MaxRows}

\* Request 1 stands at the row scan: the details opened, only the tax-bills
\* link was offered, the tax page loaded and the rows were counted.
TaxInit ==
    /\ pc = [r \in Req |-> IF r = 1 THEN "tax_scan" ELSE "unused"]
    /\ session = [r \in Req |-> IF r = 1 THEN OpenSession ELSE NoSession]
    /\ links = [r \in Req |->
                   IF r = 1 THEN [NewLinks EXCEPT !.tax_bills_url = Url]
                   ELSE NewLinks]
    /\ files = [r \in Req |-> EmptyFiles]
    /\ deed_bytes = [r \in Req |-> None]
    /\ dl_result = [r \in Req |-> NotAttempted]
    /\ print_result = [r \in Req |-> [d \in DocNames |-> NotAttempted]]
    /\ ops = [r \in Req |->
                 IF r = 1
                 THEN <<"goto_portal", "wait_ready", "search", "open_result",
                        "marker_visible", "extract", "tax_resolve">>
                 ELSE <<>>]
    /\ raised = [r \in Req |-> {}]
    /\ failedAt = [r \in Req |-> "none"]
    /\ outcome = [r \in Req |-> "none"]
    /\ packaged = [r \in Req |-> NotPackaged]
    /\ \E table \in Tables :
          /\ rows = [r \in Req |-> IF r = 1 THEN table ELSE <<>>]
          /\ n = [r \in Req |-> IF r = 1 THEN Len(table) ELSE 0]
    /\ page_url = [r \in Req |-> <<>>]
    /\ i = [r \in Req |-> 0]
    /\ best_year = [r \in Req |-> -1]
    /\ best_href = [r \in Req |-> NoneHref]
    /\ bill_url = [r \in Req |-> <<>>]
    /\ form_address = [r \in Req |->
                          IF r = 1 THEN <<" ", "1", "2", " ", "M", "l", " ">>
                          ELSE <<>>]
    /\ address = [r \in Req |-> Strip(form_address[r])]

TaxNext == \E r \in Req : TaxScanRow(r) \/ TaxResolve(r)

TaxSpec == TaxInit /\ [][TaxNext]_vars


(***************************************************************************)
(* Vocabulary of the properties.                                           *)
(***************************************************************************)
Range(q) == {q[k] : k \in 1..Len(q)}
Did(r, op) == op \in Range(ops[r])
Pos(r, op) == CHOOSE k \in 1..Len(ops[r]) : ops[r][k] = op

\* Extraction returned a PropertyLinks.
Extracted(r) == Did(r, "extract") /\ "extract" \notin raised[r]

\* The acquisitions that produced a payload the bundle takes: a non-empty
\* deed payload from either strategy, a returned print for the other two.
DeedSucceeded(r) ==
    dl_result[r] = Bytes \/ print_result[r]["deed.pdf"] = Bytes
Succeeded(r) ==
    {d \in DocNames :
        \/ d = "deed.pdf" /\ DeedSucceeded(r)
        \/ d # "deed.pdf" /\ print_result[r][d] \in {Empty, Bytes}}

(***************************************************************************)
(* C1.  Degrade-not-abort: once links are extracted, a request that has    *)
(* ended has attempted the acquisition of every document whose link is     *)
(* present, whatever happened to the earlier ones; and if at least one     *)
(* acquisition succeeded it ended in success, the bundle packaged being    *)
(* exactly the documents that succeeded.                                   *)
(***************************************************************************)
DegradeNotAbort ==
    \A r \in Req :
        (Extracted(r) /\ pc[r] = "done") =>
            /\ Truthy(links[r].deed_url) => Did(r, "deed_download")
            /\ Truthy(links[r].prc_url) => Did(r, "prc_print")
            /\ Truthy(links[r].tax_bills_url) => Did(r, "tax_resolve")
            /\ Succeeded(r) # {} =>
                   outcome[r] = "zip" /\ packaged[r] = Succeeded(r)

\* Deed and tax bill were attempted and failed, the record card printed: a
\* one-entry bundle is returned.
DegradeWitness ==
    \E r \in Req :
        /\ pc[r] = "done"
        /\ Did(r, "deed_download") /\ Did(r, "deed_print")
        /\ print_result[r]["deed.pdf"] = "raises"
        /\ Did(r, "tax_print") /\ print_result[r]["tax_bill.pdf"] = "raises"
        /\ outcome[r] = "zip"
        /\ packaged[r] = {"property_record_card.pdf"}

(***************************************************************************)
(* C2.  Total failure: a request whose required stages all returned and    *)
(* whose bundle is empty after the acquisitions ends in 404 without the    *)
(* ZIP step having run; the ZIP step only ever runs on a non-empty bundle. *)
(***************************************************************************)
TotalFailure ==
    \A r \in Req :
        /\ (pc[r] = "done" /\ Extracted(r) /\ Keys(files[r]) = {}) =>
               outcome[r] = "404" /\ packaged[r] = NotPackaged
        /\ packaged[r] # NotPackaged => packaged[r] # {}

\* All three links were present and all three acquisitions failed.
TotalFailureWitness ==
    \E r \in Req :
        /\ pc[r] = "done" /\ outcome[r] = "404"
        /\ Did(r, "deed_print") /\ Did(r, "prc_print") /\ Did(r, "tax_resolve")
        /\ Keys(files[r]) = {}

(***************************************************************************)
(* C3.  Unconditional teardown: whenever fetch_docs_as_zip has exited      *)
(* (archive, 404, or an exception of a required stage) the browser and     *)
(* the context of that request are no longer open.                         *)
(***************************************************************************)
SessionClosedAtExit ==
    \A r \in Req :
        pc[r] \in {"check", "done"} =>
            /\ session[r].browser = "closed"
            /\ session[r].context = "closed"
            /\ session[r].playwright = "stopped"

\* Result opening raised after a click: the function has exited with the
\* error and the session is closed.
TeardownWitness ==
    \E r \in Req :
        /\ pc[r] = "done" /\ failedAt[r] = "open_result"
        /\ Did(r, "click_link")
        /\ session[r].browser = "closed"

(***************************************************************************)
(* C4.  A failed readiness wait or a failed result opening ends the        *)
(* request with an error at once: no operation of a later stage is ever    *)
(* performed for it, and nothing is packaged.                              *)
(***************************************************************************)
RequiredFailureAborts ==
    \A r \in Req :
        /\ "wait_ready" \in raised[r] =>
               /\ pc[r] = "done" /\ outcome[r] = "error"
               /\ Range(ops[r]) \subseteq {"goto_portal", "wait_ready"}
               /\ packaged[r] = NotPackaged
        /\ "open_result" \in raised[r] =>
               /\ pc[r] = "done" /\ outcome[r] = "error"
               /\ Range(ops[r]) \subseteq
                      {"goto_portal", "wait_ready", "search", "open_result",
                       "try_link", "click_link", "try_row", "click_row"}
               /\ packaged[r] = NotPackaged

\* The container was clicked and the details marker never showed.
RequiredFailureWitness ==
    \E r \in Req :
        /\ "open_result" \in raised[r]
        /\ Did(r, "click_row")
        /\ outcome[r] = "error"

(***************************************************************************)
(* C5.  A request ends in 404 exactly when navigation, search, result      *)
(* opening and extraction all returned and the bundle is empty; a failed   *)
(* required stage never ends in 404; a non-empty bundle ends in the        *)
(* archive.                                                                *)
(***************************************************************************)
RequiredCompleted(r) ==
    RequiredStages \subseteq Range(ops[r]) /\ raised[r] = {}

NotFoundIffEmpty ==
    \A r \in Req :
        pc[r] = "done" =>
            /\ outcome[r] = "404" <=>
                   (RequiredCompleted(r) /\ Keys(files[r]) = {})
            /\ raised[r] # {} => outcome[r] = "error"
            /\ Keys(files[r]) # {} => outcome[r] = "zip"

\* No document link was offered at all: 404 without any acquisition.
NotFoundWitness ==
    \E r \in Req :
        /\ pc[r] = "done" /\ outcome[r] = "404"
        /\ RequiredCompleted(r)
        /\ ~Did(r, "deed_download") /\ ~Did(r, "prc_print")
        /\ ~Did(r, "tax_resolve")

(***************************************************************************)
(* C6.  Termination: every request that has started eventually ends        *)
(* (archive, 404 or error), whatever the portal does.                      *)
(***************************************************************************)
Termination ==
    \A r \in Req : (pc[r] = "goto_portal") ~> (pc[r] = "done")


(***************************************************************************)
(* C7.  Latest-year selection: after any number of scanned rows, the       *)
(* tracked link is the link of the last scanned row, in document order,    *)
(* among the rows with both a year and a link whose year is the maximum    *)
(* over such rows, and the tracked year is that maximum; with no such row  *)
(* nothing is selected.  Rows without a year or without a link neither     *)
(* become the selection nor raise the maximum.                             *)
(***************************************************************************)
\* The link of the k-th row of request r, when it has one.
LinkOf(r, k) == RowHref(rows[r][k], k, "none")

\* The k-th row of request r has a readable year and a usable link.
Usable(r, k) ==
    /\ rows[r][k].readable
    /\ HasYear(rows[r][k].txt)
    /\ rows[r][k].link \in {"abs", "root", "path"}

UsableUpTo(r, m) == {k \in 1..m : Usable(r, k)}
YearAt(r, k) == FirstYear(rows[r][k].txt)
MaxYear(r, m) ==
    CHOOSE y \in {YearAt(r, k) : k \in UsableUpTo(r, m)} :
        \A k \in UsableUpTo(r, m) : YearAt(r, k) <= y
Winner(r, m) ==
    CHOOSE k \in UsableUpTo(r, m) :
        /\ YearAt(r, k) = MaxYear(r, m)
        /\ \A j \in UsableUpTo(r, m) : YearAt(r, j) = MaxYear(r, m) => j <= k

LatestYearSelection ==
    \A r \in Req :
        pc[r] \in {"tax_scan", "tax_print"} =>
            IF UsableUpTo(r, i[r]) = {}
            THEN best_href[r] = NoneHref /\ best_year[r] = -1
            ELSE /\ best_year[r] = MaxYear(r, i[r])
                 /\ best_href[r] = LinkOf(r, Winner(r, i[r]))

\* Years 2022, 2023, 2022 with links on rows 1 and 3 only: the scan is over
\* and row 3 is selected (the later of the two 2022 rows; the 2023 row has
\* no link and did not raise the maximum).
LatestYearWitness ==
    \E r \in Req :
        /\ pc[r] = "tax_print"
        /\ n[r] = 3
        /\ Usable(r, 1) /\ YearAt(r, 1) = 2022
        /\ rows[r][2].readable /\ HasYear(rows[r][2].txt)
        /\ YearAt(r, 2) = 2023 /\ rows[r][2].link = "nolink"
        /\ Usable(r, 3) /\ YearAt(r, 3) = 2022
        /\ best_year[r] = 2022
        /\ best_href[r] = LinkOf(r, 3)

(***************************************************************************)
(* C8.  Link resolution: when some row yields a year and a link, the       *)
(* value returned is the winning link itself if it is absolute and the     *)
(* page's origin followed by the link's path if it is relative, in any     *)
(* relative form; the page's own address is returned only when no row      *)
(* yields a year and a link.                                               *)
(***************************************************************************)
\* A relative link against the origin of `page`.
AgainstOrigin(h, page) ==
    Origin(page) \o (IF StartsWith(h, "/") THEN h ELSE <<"/">> \o h)

LinkResolution ==
    \A r \in Req :
        pc[r] = "tax_print" =>
            IF UsableUpTo(r, n[r]) = {}
            THEN bill_url[r] = page_url[r]
            ELSE LET h == LinkOf(r, Winner(r, n[r]))
                 IN /\ bill_url[r] # page_url[r]
                    /\ bill_url[r] = IF StartsWith(h, "http") THEN h
                                     ELSE AgainstOrigin(h, page_url[r])

(***************************************************************************)
(* C9.  Deed fallback: with a deed link present and the deed step over,    *)
(* the download came first; the print was attempted whenever the download  *)
(* gave no bytes (None or a zero-length payload) and never when it gave    *)
(* bytes; deed.pdf is in the bundle exactly when the download or the print *)
(* produced a non-empty payload.                                           *)
(***************************************************************************)
DeedStepOver(r) ==
    /\ Did(r, "deed_download")
    /\ pc[r] \notin {"deed_path", "deed_path_waiting", "deed_after"}
    /\ failedAt[r] = "none"

DeedFallback ==
    \A r \in Req :
        DeedStepOver(r) =>
            /\ Did(r, "deed_print") =>
                   Pos(r, "deed_download") < Pos(r, "deed_print")
            /\ dl_result[r] \in {None, Empty} => Did(r, "deed_print")
            /\ dl_result[r] = Bytes => ~Did(r, "deed_print")
            /\ files[r]["deed.pdf"] # None <=> DeedSucceeded(r)

(***************************************************************************)
(* C10.  Extraction never fails the pipeline: once the details marker is   *)
(* visible no operation of the extraction raises out of it, so a request   *)
(* that started extracting never ends with the extraction's exception.     *)
(***************************************************************************)
ExtractionNeverRaises ==
    \A r \in Req :
        Did(r, "extract") =>
            "extract" \notin raised[r] /\ failedAt[r] # "extract"

(***************************************************************************)
(* C11.  Input floor: a posted address with fewer than 5 characters after  *)
(* trimming is answered with 400 and no session is ever opened for it;     *)
(* fetch_docs_as_zip only ever runs on a trimmed address of at least 5     *)
(* characters.                                                             *)
(***************************************************************************)
\* Length of the field between its first and last non-blank character.
TrimmedLen(a) ==
    LET ink == {k \in 1..Len(a) : a[k] # " "}
    IN IF ink = {} THEN 0
       ELSE (CHOOSE k \in ink : \A j \in ink : j <= k)
            - (CHOOSE k \in ink : \A j \in ink : k <= j) + 1

Posted(r) == pc[r] \notin {"idle", "unused"}

InputFloor ==
    \A r \in Req :
        Posted(r) =>
            IF TrimmedLen(form_address[r]) < 5
            THEN /\ pc[r] = "rejected" /\ outcome[r] = "400"
                 /\ session[r] = NoSession /\ ops[r] = <<>>
            ELSE /\ pc[r] # "rejected"
                 /\ Len(address[r]) = TrimmedLen(form_address[r])
                 /\ Len(address[r]) >= 5
                 /\ address[r][1] # " " /\ address[r][Len(address[r])] # " "

\* " 12 M " has six characters and four after trimming: it is rejected.
InputFloorWitness ==
    \E r \in Req :
        /\ pc[r] = "rejected"
        /\ Len(form_address[r]) >= 5
        /\ TrimmedLen(form_address[r]) = 4

(***************************************************************************)
(* Two concurrent requests.  Both were accepted by the endpoint; their     *)
(* coroutines interleave at every await.  The portal shows request 1 a     *)
(* property with a deed and a record card, request 2 one with tax bills    *)
(* only.                                                                   *)
(***************************************************************************)
Shown(r) ==
    IF r = 1
    THEN Answers(<<"PIN", ":", "4657.12">>, "true", Url, "false", None,
                 "true", "2972 / 328", Url)
    ELSE Answers(<<"PIN", "Owner">>, "false", None, "true", Url,
                 "false", "raises", None)

ConcInit ==
    /\ pc = [r \in Req |-> "fetch_docs"]
    /\ session = [r \in Req |-> NoSession]
    /\ links = [r \in Req |-> NewLinks]
    /\ files = [r \in Req |-> EmptyFiles]
    /\ deed_bytes = [r \in Req |-> None]
    /\ dl_result = [r \in Req |-> NotAttempted]
    /\ print_result = [r \in Req |-> [d \in DocNames |-> NotAttempted]]
    /\ ops = [r \in Req |-> <<>>]
    /\ raised = [r \in Req |-> {}]
    /\ failedAt = [r \in Req |-> "none"]
    /\ outcome = [r \in Req |-> "none"]
    /\ packaged = [r \in Req |-> NotPackaged]
    /\ rows = [r \in Req |-> <<>>]
    /\ n = [r \in Req |-> 0]
    /\ i = [r \in Req |-> 0]
    /\ best_year = [r \in Req |-> -1]
    /\ best_href = [r \in Req |-> NoneHref]
    /\ page_url = [r \in Req |-> <<>>]
    /\ bill_url = [r \in Req |-> <<>>]
    /\ form_address = [r \in Req |->
                          IF r = 1 THEN <<" ", "1", "2", " ", "M", "l", " ">>
                          ELSE <<"1", "3", "3", " ", "M", "a", "n", "o", "r">>]
    /\ address = [r \in Req |-> Strip(form_address[r])]

\* The body read of either request may fail.
ConcExtract(r) ==
    \E ok \in BOOLEAN :
       ExtractFrom(r, IF ok THEN Shown(r)
                      ELSE [Shown(r) EXCEPT !.body = <<"raises">>])

ConcNext == \E r \in Req : Locate(r) \/ ConcExtract(r) \/ Acquire(r)

ConcSpec == ConcInit /\ [][ConcNext]_vars

(***************************************************************************)
(* C12.  Cross-request isolation: in every interleaving of two requests a  *)
(* step changes the state of one request only (its session, links,         *)
(* bundle, locals and history); each request's bundle holds only what its  *)
(* own acquisitions produced, and its result is the one its own run        *)
(* determines.                                                             *)
(***************************************************************************)
\* Everything that belongs to request q.
View(q) ==
    <<pc[q], session[q], links[q], files[q], deed_bytes[q], dl_result[q],
      print_result[q], ops[q], raised[q], failedAt[q], outcome[q],
      packaged[q], rows[q], n[q], i[q], best_year[q], best_href[q],
      page_url[q], bill_url[q], form_address[q], address[q]>>

OneRequestMoves ==
    \A q1, q2 \in Req :
        q1 # q2 => (View(q1)' = View(q1) \/ View(q2)' = View(q2))

OwnBundle ==
    \A r \in Req :
        /\ Keys(files[r]) \subseteq Succeeded(r)
        /\ (pc[r] = "done" /\ failedAt[r] = "none") =>
               /\ Keys(files[r]) = Succeeded(r)
               /\ outcome[r] = IF Succeeded(r) = {} THEN "404" ELSE "zip"
               /\ Succeeded(r) # {} => packaged[r] = Succeeded(r)

Isolation == []OwnBundle /\ [][OneRequestMoves]_vars

\* Both requests have their session open and are through with their
\* acquisitions at the same time; each holds its own documents only.
IsolationWitness ==
    /\ pc[1] = "teardown" /\ pc[2] = "teardown"
    /\ Keys(files[1]) = {"deed.pdf", "property_record_card.pdf"}
    /\ Keys(files[2]) = {"tax_bill.pdf"}
    /\ Did(1, "prc_print") /\ ~Did(2, "prc_print")
    /\ Did(2, "tax_print") /\ ~Did(1, "tax_print")

(***************************************************************************)
(* C13.  The result opening returns only after the "PIN" marker was seen   *)
(* visible: in the initial check, and then nothing was clicked, or         *)
(* directly after a click on a result.  When the stage is over and the     *)
(* marker was not seen (a click whose marker never showed, or no target    *)
(* that could be clicked) the stage has failed and the request ended with  *)
(* an error instead of going on to the extraction.                         *)
(***************************************************************************)
Clicks == {"try_link", "click_link", "try_row", "click_row"}

OpenOver(r) ==
    Did(r, "open_result") /\ pc[r] \notin {"open_link", "open_row", "open_wait"}

OpenReturned(r) == pc[r] = "extract" \/ Did(r, "extract")

MarkerGate ==
    \A r \in Req :
        /\ OpenReturned(r) => Did(r, "marker_visible")
        /\ Did(r, "marker_visible") =>
               LET before == ops[r][Pos(r, "marker_visible") - 1]
               IN IF before = "open_result"
                  THEN Range(ops[r]) \cap Clicks = {}
                  ELSE before \in {"click_link", "click_row"}
        /\ (OpenOver(r) /\ ~Did(r, "marker_visible")) =>
               /\ pc[r] = "done" /\ outcome[r] = "error"
               /\ failedAt[r] = "open_result"
               /\ ~OpenReturned(r)

\* The link was clicked, the marker showed, and the stage returned.
MarkerGateWitness ==
    \E r \in Req :
        /\ pc[r] = "extract"
        /\ Did(r, "click_link")
        /\ ops[r][Len(ops[r])] = "marker_visible"

(***************************************************************************)
(* C14.  Fallback order of the result opening: when the marker is not      *)
(* visible at first the address link is tried first; the container is      *)
(* tried exactly when the wait for the link or its click failed; each      *)
(* target is tried at most once and at most one click succeeds; a link     *)
(* click that succeeded is never followed by a container attempt, whether  *)
(* or not the marker shows afterwards.                                     *)
(***************************************************************************)
Count(r, op) == Cardinality({k \in 1..Len(ops[r]) : ops[r][k] = op})

AutoOpened(r) ==
    /\ Did(r, "open_result")
    /\ Len(ops[r]) > Pos(r, "open_result")
    /\ ops[r][Pos(r, "open_result") + 1] = "marker_visible"

FallbackOrder ==
    \A r \in Req :
        /\ (Did(r, "open_result") /\ ~AutoOpened(r) /\ pc[r] # "open_link") =>
               /\ Did(r, "try_link")
               /\ Pos(r, "try_link") = Pos(r, "open_result") + 1
        /\ Did(r, "try_row") =>
               /\ Did(r, "try_link") /\ ~Did(r, "click_link")
               /\ Pos(r, "try_row") = Pos(r, "try_link") + 1
        /\ (Did(r, "try_link") /\ ~Did(r, "click_link") /\ pc[r] # "open_row") =>
               Did(r, "try_row")
        /\ Did(r, "click_link") => ~Did(r, "try_row")
        /\ ~(Did(r, "click_link") /\ Did(r, "click_row"))
        /\ \A op \in Clicks : Count(r, op) <= 1

\* The link could not be clicked, the container was, and the marker showed.
FallbackOrderWitness ==
    \E r \in Req :
        /\ Did(r, "try_link") /\ ~Did(r, "click_link")
        /\ Did(r, "click_row")
        /\ Did(r, "marker_visible")

(***************************************************************************)
(* C15.  The bundle only grows: its keys are among the three document      *)
(* names; an entry, once written, is never removed or changed by a later   *)
(* step, a later failing acquisition included, so each key is written at   *)
(* most once; a document has an entry only if its link was extracted; and  *)
(* a document whose link is absent causes no navigation.                   *)
(***************************************************************************)
DocLink(r, d) ==
    IF d = "deed.pdf" THEN links[r].deed_url
    ELSE IF d = "property_record_card.pdf" THEN links[r].prc_url
    ELSE links[r].tax_bills_url

Navigations(d) ==
    IF d = "deed.pdf" THEN {"deed_download", "deed_print"}
    ELSE IF d = "property_record_card.pdf" THEN {"prc_print"}
    ELSE {"tax_resolve", "tax_print"}

BundleOfLinks ==
    \A r \in Req :
        /\ DOMAIN files[r] = DocNames
        /\ \A d \in DocNames :
              /\ files[r][d] # None => DocLink(r, d) \notin {None, Empty}
              /\ DocLink(r, d) = None =>
                     /\ Range(ops[r]) \cap Navigations(d) = {}
                     /\ files[r][d] = None

EntriesKept ==
    \A r \in Req : \A d \in DocNames :
        files[r][d] # None => files'[r][d] = files[r][d]

BundleMonotone == []BundleOfLinks /\ [][EntriesKept]_vars

\* The deed is in the bundle, the record-card print after it raised, and the
\* tax bill was added after that.
BundleMonotoneWitness ==
    \E r \in Req :
        /\ files[r]["deed.pdf"] = Bytes
        /\ print_result[r]["property_record_card.pdf"] = "raises"
        /\ files[r]["property_record_card.pdf"] = None
        /\ files[r]["tax_bill.pdf"] = Bytes

(***************************************************************************)
(* C16.  The operations of a request happen one after the other in the     *)
(* fixed order navigation, readiness wait, search, result opening,         *)
(* extraction, deed, record card, tax bill, teardown; an acquisition       *)
(* starts only after the extraction returned; and no step after the        *)
(* extraction changes the PropertyLinks.                                   *)
(***************************************************************************)
OpOrder ==
    <<"goto_portal", "wait_ready", "search",
      "open_result", "try_link", "click_link", "try_row", "click_row",
      "marker_visible",
      "extract",
      "deed_download", "deed_print",
      "prc_print",
      "tax_resolve", "tax_print",
      "close", "package">>

Rank(op) == CHOOSE k \in 1..Len(OpOrder) : OpOrder[k] = op

Acquisitions ==
    {"deed_download", "deed_print", "prc_print", "tax_resolve", "tax_print"}

OrderedOps ==
    \A r \in Req :
        /\ Range(ops[r]) \subseteq Range(OpOrder)
        /\ \A k \in 1..(Len(ops[r]) - 1) :
               Rank(ops[r][k]) < Rank(ops[r][k + 1])
        /\ Range(ops[r]) \cap Acquisitions # {} => Extracted(r)

LinksFrozen ==
    \A r \in Req : Did(r, "extract") => links'[r] = links[r]

SequentialStages == []OrderedOps /\ [][LinksFrozen]_vars

\* A request that went through every stage and every acquisition.
SequentialStagesWitness ==
    \E r \in Req :
        /\ Acquisitions \subseteq Range(ops[r])
        /\ Did(r, "click_row")
        /\ Did(r, "package")

(***************************************************************************)
(* C17.  After the extraction returned, deed_book_page and deed_url are    *)
(* both present or both absent.                                            *)
(***************************************************************************)
DeedFieldsTogether ==
    \A r \in Req :
        Extracted(r) =>
            (links[r].deed_book_page = None <=> links[r].deed_url = None)

=============================================================================
